---- MODULE Spec2Model ----
(***************************************************************************)
(* Model of histogram-sampler (src/src/lib.rs): Sampler::from_bins builds  *)
(* a cumulative-weight index (a BTreeMap keyed by start offset) from a     *)
(* sequence of (bin, count) pairs, and ind_sample / sample map one uniform *)
(* draw in [0, end) to a value id.                                         *)
(***************************************************************************)
EXTENDS Integers, Sequences, FiniteSets, TLC

\* ------------------------------------------------------------------ bounds
MaxBins   == 2   \* longest input sequence handed to from_bins
MaxCenter == 1   \* largest bin center in an input
MaxCount  == 2   \* largest count in an input
MaxWidth  == 2   \* largest bin_width handed to from_bins

VARIABLES
    state,      \* "new" before from_bins has returned, "built" after
    iter,       \* the bins argument of from_bins: a sequence of <<bin, count>>
    bin_width,  \* the bin_width argument of from_bins
    bins,       \* Sampler.bins : start offset -> <<first_id, n>>
    next_id,    \* Sampler.next_id
    end,        \* Sampler.end
    ret         \* the outcome of the latest sample / ind_sample call

vars == <<state, iter, bin_width, bins, next_id, end, ret>>

\* ------------------------------------------------------------- the inputs
Bin == (0..MaxCenter) \X (0..MaxCount)

Inputs == UNION {[1..n -> Bin] : n \in 0..MaxBins}

Widths == 0..MaxWidth

\* ----------------------------------------------------------- BTreeMap ops
EmptyMap == [k \in {} |-> <<0, 0>>]

\* BTreeMap::insert: a later insert under an existing key replaces the entry
MapInsert(m, k, v) == [x \in (DOMAIN m) \cup {k} |-> IF x = k THEN v ELSE m[x]]

\* range((Unbounded, Included(sample))): the keys <= sample
MapRange(m, sample) == {k \in DOMAIN m : k <= sample}

\* variant: next() instead of next_back(), the first key of the range
NextBack_first(r) == {k \in r : \A k2 \in r : k <= k2}

\* next_back(): the last (greatest) key of the range; {} when the range is empty
NextBack(r) == {k \in r : \A k2 \in r : k2 <= k}

\* ------------------------------------------------------- Sampler::from_bins
\* variant: the truncating weights, without the oversampling by 4
avg_bin_value_truncating(bin, width) == IF bin = 0 THEN width \div 4 ELSE bin

\* variant: no special case for the first bin
avg_bin_value_plain(bin, width) == 4 * bin

\* the weight of one item of a bin, oversampled by a factor of 4
avg_bin_value(bin, width) == IF bin = 0 THEN width ELSE 4 * bin

\* variant: next_id advances by one per bin instead of by count
LoopBody_one_id(acc, bin, count, width) ==
    IF count = 0
    THEN acc
    ELSE [start   |-> acc.start + count * avg_bin_value(bin, width),
          next_id |-> acc.next_id + 1,
          bins    |-> MapInsert(acc.bins, acc.start, <<acc.next_id, count>>)]

\* one iteration of the for loop over acc = [start, next_id, bins]
LoopBody(acc, bin, count, width) ==
    IF count = 0
    THEN acc
    ELSE [start   |-> acc.start + count * avg_bin_value(bin, width),
          next_id |-> acc.next_id + count,
          bins    |-> MapInsert(acc.bins, acc.start, <<acc.next_id, count>>)]

RECURSIVE ForLoop(_, _, _)
ForLoop(acc, it, width) ==
    IF it = <<>>
    THEN acc
    ELSE ForLoop(LoopBody(acc, Head(it)[1], Head(it)[2], width), Tail(it), width)

from_bins(it, width) ==
    LET acc == ForLoop([start |-> 0, next_id |-> 0, bins |-> EmptyMap], it, width)
    IN  [bins |-> acc.bins, next_id |-> acc.next_id, end |-> acc.start]

nvalues(self) == self.next_id

Self == [bins |-> bins, next_id |-> next_id, end |-> end]

\* ------------------------------------------------------------ ind_sample
\* rng.gen_range(low, high): the values it can return; it panics (no value)
\* when low >= high
gen_range(low, high) == IF low < high THEN low..(high - 1) ELSE {}

Panic == [kind |-> "panic", sample |-> 0, id |-> 0]
NoCall == [kind |-> "none", sample |-> 0, id |-> 0]
Ok(sample, id) == [kind |-> "ok", sample |-> sample, id |-> id]

\* variant: the draw is added without the reduction modulo n
id_in_bin_no_mod(first_id, n, sample) == first_id + sample

\* variant: always the first id of the bin
id_in_bin_first(first_id, n, sample) == first_id

\* find a value in the bin's range
id_in_bin(first_id, n, sample) == first_id + (sample % n)

\* the body of ind_sample once the draw is known: find the bin, then the id;
\* unwrap() panics when no key is <= sample
lookup(self, sample) ==
    LET last == NextBack(MapRange(self.bins, sample))
    IN  IF last = {}
        THEN Panic
        ELSE LET k == CHOOSE x \in last : TRUE
             IN  Ok(sample, id_in_bin(self.bins[k][1], self.bins[k][2], sample))

\* variant: an empty distribution answers id 0 instead of panicking
ind_sample_default(self) ==
    IF gen_range(0, self.end) = {}
    THEN {Ok(0, 0)}
    ELSE {lookup(self, sample) : sample \in gen_range(0, self.end)}

\* every outcome one call of ind_sample can have on self
ind_sample(self) ==
    IF gen_range(0, self.end) = {}
    THEN {Panic}
    ELSE {lookup(self, sample) : sample \in gen_range(0, self.end)}

\* variant: sampling consumes the first interval of the index
sample_self_consuming(self) ==
    [self EXCEPT !.bins = [k \in (DOMAIN self.bins) \ {0} |-> self.bins[k]]]

\* Sample::sample takes &mut self and delegates to ind_sample; the receiver
\* it leaves behind
sample_self(self) == self

\* ---------------------------------------------------------------- actions
\* no Sampler exists before from_bins has run
Init ==
    /\ state = "new"
    /\ iter = <<>>
    /\ bin_width = 0
    /\ bins = EmptyMap
    /\ next_id = 0
    /\ end = 0
    /\ ret = NoCall

FromBins ==
    /\ state = "new"
    /\ \E it \in Inputs, width \in Widths :
          LET s == from_bins(it, width)
          IN  /\ iter' = it
              /\ bin_width' = width
              /\ bins' = s.bins
              /\ next_id' = s.next_id
              /\ end' = s.end
    /\ state' = "built"
    /\ UNCHANGED ret

\* a caller holding &self calls ind_sample
IndSample ==
    /\ state = "built"
    /\ \E o \in ind_sample(Self) : ret' = o
    /\ UNCHANGED <<state, iter, bin_width, bins, next_id, end>>

\* a caller holding &mut self calls Sample::sample
Sample ==
    /\ state = "built"
    /\ \E o \in ind_sample(Self) : ret' = o
    /\ bins' = sample_self(Self).bins
    /\ next_id' = sample_self(Self).next_id
    /\ end' = sample_self(Self).end
    /\ UNCHANGED <<state, iter, bin_width>>

Next ==
    \/ FromBins
    \/ IndSample
    \/ Sample

Spec == Init /\ [][Next]_vars

TypeOK ==
    /\ state \in {"new", "built"}
    /\ next_id \in Nat
    /\ end \in Nat
    /\ ret.kind \in {"none", "ok", "panic"}
\* ------------------------------------------------- vocabulary of the claims
RECURSIVE SumCounts(_)
SumCounts(it) == IF it = <<>> THEN 0 ELSE Head(it)[2] + SumCounts(Tail(it))

IsNonEmptyBin(b) == b[2] # 0

\* the bins the builder does not skip, in input order
NonEmpty(it) == SelectSeq(it, IsNonEmptyBin)

\* the ids handed out before the k-th bin of ne
IdBase(ne, k) == SumCounts(SubSeq(ne, 1, k - 1))

\* the k-th smallest start offset stored in the index
KeyAt(k) ==
    CHOOSE x \in DOMAIN bins : Cardinality({y \in DOMAIN bins : y < x}) = k - 1

\* the start offset of the interval a draw falls into: the greatest one <= d
IntervalOf(d) ==
    CHOOSE k \in DOMAIN bins :
        k <= d /\ ~ \E k2 \in DOMAIN bins : k < k2 /\ k2 <= d

Built == state = "built"

\* from_bins has returned and no call has been made yet
Fresh == Built /\ ret.kind = "none"

\* ----------------------------------------------------------------- claims

\* C1: for a Sampler built with bin_width > 0 from bins with at least one
\* non-zero count, every call draws d in [0, end) and returns an id in
\* [0, nvalues()).
C1_IdInRange ==
    (Built /\ bin_width > 0 /\ SumCounts(iter) > 0 /\ ret.kind # "none")
        => /\ ret.kind = "ok"
           /\ ret.sample \in 0..(end - 1)
           /\ ret.id >= 0
           /\ ret.id < nvalues(Self)

C1_Witness ==
    /\ Built /\ bin_width > 0
    /\ Len(NonEmpty(iter)) = 2
    /\ ret.kind = "ok"
    /\ ret.id = nvalues(Self) - 1
    /\ ret.sample = end - 1

\* C2: nvalues() of the Sampler returned by from_bins equals the sum of the
\* counts of all input bins, zero counts and any order included.
C2_NvaluesIsSumOfCounts ==
    Built => nvalues(Self) = SumCounts(iter)

C2_Witness ==
    /\ Built
    /\ Len(iter) = 2
    /\ iter[1] = <<1, 2>>
    /\ iter[2] = <<0, 0>>
    /\ nvalues(Self) = 2

\* C4: from an empty sequence of bins, or bins whose counts are all 0,
\* construction returns a Sampler with nvalues() = 0 and end = 0, and every
\* sample call on it panics instead of returning an id.
C4_EmptyDistributionFails ==
    (Built /\ SumCounts(iter) = 0)
        => /\ nvalues(Self) = 0
           /\ end = 0
           /\ bins = EmptyMap
           /\ ret.kind \in {"none", "panic"}

C4_Witness ==
    /\ Built
    /\ Len(iter) = 2
    /\ SumCounts(iter) = 0
    /\ bin_width > 0
    /\ ret.kind = "panic"

\* every id in [0, nvalues()) is the answer to at least one draw in [0, end)
AllIdsSampleable ==
    \A id \in 0..(nvalues(Self) - 1) :
        \E d \in gen_range(0, end) : lookup(Self, d) = Ok(d, id)

\* C5: from_bins with bin_width = 0 is reported as an error at construction
\* or at sampling: no call on such a Sampler returns an id, and no Sampler is
\* produced in which some id of [0, nvalues()) can never be sampled.
C5_ZeroWidthIsReported ==
    (Built /\ bin_width = 0)
        => /\ ret.kind # "ok"
           /\ (end > 0 => AllIdsSampleable)

\* C6: once from_bins has returned, no sample or ind_sample call changes
\* bins, next_id or end, and a call that repeats the previous draw returns the
\* previous id.
C6_SamplingIsReadOnly ==
    [][Built =>
          /\ bins' = bins
          /\ next_id' = next_id
          /\ end' = end
          /\ (ret.kind = "ok" /\ ret'.kind = "ok" /\ ret'.sample = ret.sample)
                => ret'.id = ret.id]_vars

C6_Witness ==
    /\ Built
    /\ Cardinality(DOMAIN bins) = 2
    /\ ret.kind = "ok"
    /\ ret.id > 0

\* C7 as stated: the call selects the interval with the greatest start offset
\* <= d and returns first_id + ((d - start_offset) mod count).
C7_IdFromOffsetInInterval ==
    (Built /\ bin_width > 0 /\ ret.kind = "ok")
        => LET k == IntervalOf(ret.sample)
           IN  ret.id = bins[k][1] + ((ret.sample - k) % bins[k][2])

\* C7 amended: the call selects the interval with the greatest start offset
\* <= d and returns first_id + (d mod count), the draw itself being reduced,
\* not its offset within the interval.
C7_IdFromDrawModCount ==
    (Built /\ bin_width > 0 /\ ret.kind = "ok")
        => /\ \E k \in DOMAIN bins : k <= ret.sample
           /\ LET k == IntervalOf(ret.sample)
              IN  ret.id = bins[k][1] + (ret.sample % bins[k][2])

\* a draw in an interval whose start offset is no multiple of its count
C7_Witness ==
    /\ Built /\ bin_width > 0
    /\ ret.kind = "ok"
    /\ LET k == IntervalOf(ret.sample)
       IN  /\ k > 0
           /\ k % bins[k][2] # 0
           /\ ret.id # bins[k][1] + ((ret.sample - k) % bins[k][2])
\* the position in ne of the bin that owns id
OwnerOf(ne, id) ==
    CHOOSE k \in 1..Len(ne) : IdBase(ne, k) <= id /\ id < IdBase(ne, k) + ne[k][2]

\* the number of draws in [0, end) answered with id
NDraws(id) == Cardinality({d \in gen_range(0, end) : lookup(Self, d) = Ok(d, id)})

\* C3: with bin_width > 0 the number of draws answered with an id is
\* proportional to the average value of its bin: ids of one bin get equally
\* many draws, an id of a bin centered on c > 0 gets k*c draws and an id of a
\* bin centered on 0 gets k*bin_width/4 draws, for one k (the oversampling
\* factor 4), without truncation. Stated of the Sampler from_bins returns.
C3_DrawsProportionalToWeight ==
    (Fresh /\ bin_width > 0)
        => LET ne == NonEmpty(iter)
           IN  \A id \in 0..(nvalues(Self) - 1) :
                  LET n == NDraws(id)
                      c == ne[OwnerOf(ne, id)][1]
                  IN  /\ c > 0 => n = 4 * c
                      /\ c = 0 => 4 * n = 4 * bin_width

\* a bin centered on 0 and a bin centered above 0, bin_width no multiple of 4
C3_Witness ==
    /\ Fresh
    /\ bin_width % 4 # 0
    /\ Len(iter) = 2
    /\ iter[1] = <<0, 2>>
    /\ iter[2] = <<1, 2>>
    /\ NDraws(0) = bin_width
    /\ NDraws(1) = bin_width
    /\ NDraws(3) = 4
    /\ NDraws(0) * 4 * 1 = NDraws(3) * bin_width

\* C8: with bin_width > 0 there is one stored interval per non-empty bin; in
\* the order the bins were consumed their start offsets strictly increase,
\* the first is 0, each starts where the previous one ends, and the last one
\* ends at end.
C8_IntervalsChain ==
    (Built /\ bin_width > 0)
        => LET ne == NonEmpty(iter)
               w  == [k \in 1..Len(ne) |-> avg_bin_value(ne[k][1], bin_width)]
           IN  /\ Cardinality(DOMAIN bins) = Len(ne)
               /\ Len(ne) = 0 => end = 0
               /\ Len(ne) > 0 =>
                     /\ KeyAt(1) = 0
                     /\ KeyAt(Len(ne)) + ne[Len(ne)][2] * w[Len(ne)] = end
               /\ \A k \in 1..Len(ne) :
                     bins[KeyAt(k)] = <<IdBase(ne, k), ne[k][2]>>
               /\ \A k \in 1..(Len(ne) - 1) :
                     /\ KeyAt(k) < KeyAt(k + 1)
                     /\ KeyAt(k + 1) = KeyAt(k) + ne[k][2] * w[k]

\* two non-empty bins, the first centered on 0
C8_Witness ==
    /\ Built
    /\ bin_width > 0
    /\ Len(iter) = 2
    /\ iter[1][1] = 0
    /\ Len(NonEmpty(iter)) = 2
    /\ Cardinality(DOMAIN bins) = 2
    /\ end > KeyAt(2)

\* C9: the k-th non-empty bin owns the ids [sum of earlier counts, that sum +
\* its count); these ranges are disjoint and cover [0, nvalues()); and with
\* bin_width > 0 every id is answered by at least one draw in [0, end), and
\* only by draws inside the cumulative interval of the bin that owns it.
C9_IdsContiguousAndCovered ==
    Built
        => LET ne  == NonEmpty(iter)
               ids == 0..(nvalues(Self) - 1)
               lo  == [k \in 1..Len(ne) |-> IdBase(ne, k)]
           IN  /\ \A x \in DOMAIN bins :
                     \E k \in 1..Len(ne) : bins[x] = <<lo[k], ne[k][2]>>
               /\ \A id \in ids :
                     Cardinality({k \in 1..Len(ne) :
                                     lo[k] <= id /\ id < lo[k] + ne[k][2]}) = 1
               /\ \A k \in 1..Len(ne) : lo[k] + ne[k][2] <= nvalues(Self)
               /\ bin_width > 0 =>
                     /\ \A id \in ids :
                           Cardinality({x \in DOMAIN bins :
                                           bins[x][1] <= id
                                           /\ id < bins[x][1] + bins[x][2]}) = 1
                     /\ Fresh => AllIdsSampleable
                     /\ ret.kind = "ok" =>
                           LET x == IntervalOf(ret.sample)
                           IN  bins[x] = <<lo[OwnerOf(ne, ret.id)],
                                           ne[OwnerOf(ne, ret.id)][2]>>

\* the last id of the second of two bins, answered by a call
C9_Witness ==
    /\ Built
    /\ bin_width > 0
    /\ Len(NonEmpty(iter)) = 2
    /\ iter[1][2] = 2
    /\ iter[2][2] = 2
    /\ ret.kind = "ok"
    /\ ret.id = 3

\* some center repeats or is not greater than an earlier one
Irregular(it) == \E i, j \in 1..Len(it) : i < j /\ it[i][1] >= it[j][1]

\* the bins of equal center merged into one bin, at the place of the first,
\* with the sum of their counts
RECURSIVE Merge(_)
Merge(it) ==
    IF it = <<>>
    THEN <<>>
    ELSE LET c    == Head(it)[1]
             same == SelectSeq(it, LAMBDA b : b[1] = c)
             rest == SelectSeq(Tail(it), LAMBDA b : b[1] # c)
         IN  <<(<<c, SumCounts(same)>>)>> \o Merge(rest)

\* C10: when a center repeats or the centers do not increase, from_bins
\* rejects the input or returns the index it returns for the input with the
\* bins of equal center merged (stated here for bin_width > 0).
C10_IrregularRejectedOrMerged ==
    (Built /\ bin_width > 0 /\ Irregular(iter))
        => \/ state = "rejected"
           \/ Self = from_bins(Merge(iter), bin_width)
====
